---- MODULE Spec2Model ----
(***************************************************************************)
(* A model of rust-xdotool's executor (src/lib.rs: XServer::run and        *)
(* XServer::screenshot) and of its desktop convenience wrappers            *)
(* (src/desktop.rs).                                                       *)
(*                                                                         *)
(* Text is modelled character by character: a string is a sequence of     *)
(* one-character strings, so that format!'s separators, double spaces and   *)
(* trailing spaces are visible.  Several threads share one XServer by      *)
(* reference; a call spawns a child process, blocks until the child has    *)
(* exited and returns the captured Output, or panics when the spawn fails. *)
(***************************************************************************)
EXTENDS Integers, Sequences, FiniteSets, TLC

VARIABLES
    ctx,        \* the shared XServer: [display, auth]
    parentEnv,  \* the calling process's environment
    pc,         \* per thread: "idle", "waiting", "returned" or "panicked"
    op,         \* per thread: the public function called and its parameters
    runCalls,   \* per thread: the calls to XServer::run made by the current op
    child,      \* per thread: the child process of the current call
    result,     \* per thread: the Output the current call returned
    calls,      \* number of calls to run/screenshot started so far
    attempts,   \* number of Command::output() spawn attempts so far
    spawned     \* number of child processes created so far

vars == <<ctx, parentEnv, pc, op, runCalls, child, result, calls, attempts, spawned>>

----------------------------------------------------------------------------
(* Bounds and input sets *)

MaxCalls == 2
MaxDisplay == 12

Threads == {"t1", "t2"}

SP == " "

S_12345 == <<"1", "2", "3", "4", "5">>
S_a_b == <<"a", SP, "b">>
S_auth == <<"/", "a", SP, "b">>
S_home == <<"/", "h">>
S_colon0 == <<":", "0">>

Displays == {7, MaxDisplay}
Auths == {S_auth}
Windows == {S_12345}
RawArgs == {S_a_b}
Nums == {2, 255}
Coords == {0, 1024}

----------------------------------------------------------------------------
(* Text helpers *)

DigitChars == <<"0", "1", "2", "3", "4", "5", "6", "7", "8", "9">>

RECURSIVE ToDecimal(_)
ToDecimal(n) ==
    IF n < 10 THEN <<DigitChars[n + 1]>>
    ELSE ToDecimal(n \div 10) \o <<DigitChars[(n % 10) + 1]>>


----------------------------------------------------------------------------
(* Literals of the command line *)

S_xdotool == <<"x", "d", "o", "t", "o", "o", "l">>
S_sh == <<"s", "h">>
S_dashc == <<"-", "c">>
S_xwd == <<"x", "w", "d">>
S_dashroot == <<"-", "r", "o", "o", "t">>
S_DISPLAY == "DISPLAY"
S_XAUTHORITY == "XAUTHORITY"
S_HOME == "HOME"

S_windowactivate == <<"w", "i", "n", "d", "o", "w", "a", "c", "t", "i", "v", "a", "t", "e">>
S_getactivewindow == <<"g", "e", "t", "a", "c", "t", "i", "v", "e", "w", "i", "n", "d", "o", "w">>
S_set_num_desktops == <<"s", "e", "t", "_", "n", "u", "m", "_", "d", "e", "s", "k", "t", "o", "p", "s">>
S_get_num_desktops == <<"g", "e", "t", "_", "n", "u", "m", "_", "d", "e", "s", "k", "t", "o", "p", "s">>
S_set_desktop_viewport == <<"s", "e", "t", "_", "d", "e", "s", "k", "t", "o", "p", "_", "v", "i", "e", "w", "p", "o", "r", "t">>
S_get_desktop_viewport == <<"g", "e", "t", "_", "d", "e", "s", "k", "t", "o", "p", "_", "v", "i", "e", "w", "p", "o", "r", "t">>
S_set_desktop == <<"s", "e", "t", "_", "d", "e", "s", "k", "t", "o", "p">>
S_get_desktop == <<"g", "e", "t", "_", "d", "e", "s", "k", "t", "o", "p">>
S_set_desktop_for_window == <<"s", "e", "t", "_", "d", "e", "s", "k", "t", "o", "p", "_", "f", "o", "r", "_", "w", "i", "n", "d", "o", "w">>
S_get_desktop_for_window == <<"g", "e", "t", "_", "d", "e", "s", "k", "t", "o", "p", "_", "f", "o", "r", "_", "w", "i", "n", "d", "o", "w">>
S_sync == <<"-", "-", "s", "y", "n", "c">>
S_relative == <<"-", "-", "r", "e", "l", "a", "t", "i", "v", "e">>

S_out == <<"4", "2">>
S_err == <<"e", "r", "r">>
S_notfound == <<"n", "f">>
S_img == <<"x", "w", "d">>

----------------------------------------------------------------------------
(* Command model: the typed commands and their rendering (Display) *)

SyncOptions == {"Sync"}
SetDesktopOptions == {"Relative"}

Cmd(action, options) == [cat |-> "Desktop", action |-> action, options |-> options]

DesktopCommands ==
    {Cmd("WindowActivate", o) : o \in SUBSET SyncOptions}
    \cup {Cmd("SetDesktop", o) : o \in SUBSET SetDesktopOptions}
    \cup {Cmd(a, {}) : a \in {"GetActiveWindow", "SetNumDesktops", "GetNumDesktops",
                              "SetDesktopViewport", "GetDesktopViewport", "GetDesktop",
                              "SetDesktopForWindow", "GetDesktopForWindow"}}

\* The commands a caller hands to XServer::run directly in this model; every
\* command of DesktopCommands reaches run through its wrapper.
RawCommands ==
    {Cmd("WindowActivate", {"Sync"}), Cmd("SetDesktop", {}),
     Cmd("GetActiveWindow", {}), Cmd("SetDesktopForWindow", {})}

SubcommandText(action) ==
    CASE action = "WindowActivate" -> S_windowactivate
      [] action = "GetActiveWindow" -> S_getactivewindow
      [] action = "SetNumDesktops" -> S_set_num_desktops
      [] action = "GetNumDesktops" -> S_get_num_desktops
      [] action = "SetDesktopViewport" -> S_set_desktop_viewport
      [] action = "GetDesktopViewport" -> S_get_desktop_viewport
      [] action = "SetDesktop" -> S_set_desktop
      [] action = "GetDesktop" -> S_get_desktop
      [] action = "SetDesktopForWindow" -> S_set_desktop_for_window
      [] action = "GetDesktopForWindow" -> S_get_desktop_for_window

FlagText(option) ==
    CASE option = "Sync" -> S_sync
      [] option = "Relative" -> S_relative

\* The enumeration order of the option variants.
OptionOrder == <<"Sync", "Relative">>

RECURSIVE RenderFlags(_, _)
RenderFlags(options, i) ==
    IF i > Len(OptionOrder) THEN << >>
    ELSE (IF OptionOrder[i] \in options THEN <<SP>> \o FlagText(OptionOrder[i]) ELSE << >>)
         \o RenderFlags(options, i + 1)

\* "<tool-subcommand> <flags...>", with no trailing separator.
Render(command) == SubcommandText(command.action) \o RenderFlags(command.options, 1)

----------------------------------------------------------------------------
(* Executor: src/lib.rs *)

\* Mutant of RunLine: the positional text placed before the command text.
RunLine_ArgsFirst(command, args) == S_xdotool \o <<SP>> \o args \o <<SP>> \o Render(command)

\* format!("xdotool {} {}", command, args)
RunLine(command, args) == S_xdotool \o <<SP>> \o Render(command) \o <<SP>> \o args

\* format!(":{display}")
DisplayValue(display) == <<":">> \o ToDecimal(display)

\* .env("DISPLAY", ..).env("XAUTHORITY", ..) of run
RunEnvs(c) == << <<S_DISPLAY, DisplayValue(c.display)>>, <<S_XAUTHORITY, c.auth>> >>

\* Mutant of ScreenshotEnvs: the display number without its leading colon.
ScreenshotEnvs_NoColon(c) == << <<S_DISPLAY, ToDecimal(c.display)>>, <<S_XAUTHORITY, c.auth>> >>

\* .env("DISPLAY", ..).env("XAUTHORITY", ..) of screenshot
ScreenshotEnvs(c) == << <<S_DISPLAY, DisplayValue(c.display)>>, <<S_XAUTHORITY, c.auth>> >>

\* Command::new("sh").arg("-c").arg(cmd)
RunArgv(cmd) == <<S_dashc, cmd>>

\* Command::new("xwd") ... .arg("-root")
ScreenshotArgv == <<S_dashroot>>

EnvVars == {S_DISPLAY, S_XAUTHORITY, S_HOME}
Unset == << "unset" >>

\* The environment a child gets: the parent's, with the builder's overrides
\* applied in order.
RECURSIVE ChildEnv(_, _)
ChildEnv(parent, overrides) ==
    IF overrides = << >> THEN parent
    ELSE ChildEnv([parent EXCEPT ![Head(overrides)[1]] = Head(overrides)[2]],
                  Tail(overrides))

\* Mutant of ParentEnvAfterSpawn: the overrides written with std::env::set_var.
ParentEnvAfterSpawn_SetVar(parent, overrides) == ChildEnv(parent, overrides)

\* Command::env records the override in the builder; the calling process's
\* environment is not written.
ParentEnvAfterSpawn(parent, overrides) == parent

NoChild ==
    [state |-> "none", prog |-> << >>, argv |-> << >>, overrides |-> << >>,
     env |-> [v \in EnvVars |-> Unset], toolFound |-> FALSE,
     status |-> 0, out |-> << >>, err |-> << >>]

NewChild(state, prog, argv, overrides) ==
    [NoChild EXCEPT !.state = state, !.prog = prog, !.argv = argv,
                    !.overrides = overrides,
                    !.env = ChildEnv(parentEnv, overrides)]

NoOutput == [some |-> FALSE, status |-> 0, stdout |-> << >>, stderr |-> << >>]

\* What the shell child of run can do: run the tool, which exits with a status
\* of its own, or fail to find the tool and exit 127.
ShOutcomes ==
    {[toolFound |-> TRUE, status |-> 0, out |-> S_out, err |-> << >>],
     [toolFound |-> TRUE, status |-> 1, out |-> S_out, err |-> S_err],
     [toolFound |-> FALSE, status |-> 127, out |-> << >>, err |-> S_notfound]}

\* What the xwd child of screenshot can do.
XwdOutcomes ==
    {[toolFound |-> TRUE, status |-> 0, out |-> S_img, err |-> << >>],
     [toolFound |-> TRUE, status |-> 1, out |-> << >>, err |-> S_err]}

\* .output() on success: the child's status and captured bytes.
OutputOf(c) == [some |-> TRUE, status |-> c.status, stdout |-> c.out, stderr |-> c.err]

\* .unwrap_or_else(|_| panic!(..)) and .unwrap() on a spawn error.
OnSpawnError == "panicked"

\* Mutant of OnOutput: a non-zero exit status treated as a failure of the call.
OnOutput_FailOnNonZero(c) ==
    IF c.status # 0 THEN [pcNext |-> "panicked", value |-> NoOutput]
    ELSE [pcNext |-> "returned", value |-> OutputOf(c)]

\* .unwrap_or_else / .unwrap on Ok(output): the Output is the function's value;
\* a wrapper returns run's value as its own.
OnOutput(c) == [pcNext |-> "returned", value |-> OutputOf(c)]

----------------------------------------------------------------------------
(* State machine *)

Init ==
    /\ ctx \in [display : Displays, auth : Auths]
    /\ parentEnv = [v \in EnvVars |->
                      CASE v = S_DISPLAY -> S_colon0
                        [] v = S_XAUTHORITY -> Unset
                        [] v = S_HOME -> S_home]
    /\ pc = [t \in Threads |-> "idle"]
    /\ op = [t \in Threads |-> [fn |-> "none", p |-> << >>]]
    /\ runCalls = [t \in Threads |-> << >>]
    /\ child = [t \in Threads |-> NoChild]
    /\ result = [t \in Threads |-> NoOutput]
    /\ calls = 0
    /\ attempts = 0
    /\ spawned = 0

\* Mutant of SpawnAndWait: a failed spawn is tried once more before panicking.
SpawnAndWait_Retry(t, prog, argv, overrides) ==
    /\ \/ /\ child' = [child EXCEPT ![t] = NewChild("running", prog, argv, overrides)]
          /\ spawned' = spawned + 1
          /\ attempts' = attempts + 1
          /\ pc' = [pc EXCEPT ![t] = "waiting"]
       \/ /\ child' = [child EXCEPT ![t] = NewChild("running", prog, argv, overrides)]
          /\ spawned' = spawned + 1
          /\ attempts' = attempts + 2
          /\ pc' = [pc EXCEPT ![t] = "waiting"]
       \/ /\ child' = [child EXCEPT ![t] = NewChild("spawn_failed", prog, argv, overrides)]
          /\ spawned' = spawned
          /\ attempts' = attempts + 2
          /\ pc' = [pc EXCEPT ![t] = OnSpawnError]
    /\ result' = [result EXCEPT ![t] = NoOutput]
    /\ parentEnv' = ParentEnvAfterSpawn(parentEnv, overrides)
    /\ UNCHANGED ctx

\* Command::output(): one attempt to spawn the child.  On success the caller
\* blocks until the child has exited; on failure the caller panics.
SpawnAndWait(t, prog, argv, overrides) ==
    /\ attempts' = attempts + 1
    /\ \/ /\ child' = [child EXCEPT ![t] = NewChild("running", prog, argv, overrides)]
          /\ spawned' = spawned + 1
          /\ pc' = [pc EXCEPT ![t] = "waiting"]
       \/ /\ child' = [child EXCEPT ![t] = NewChild("spawn_failed", prog, argv, overrides)]
          /\ spawned' = spawned
          /\ pc' = [pc EXCEPT ![t] = OnSpawnError]
    /\ result' = [result EXCEPT ![t] = NoOutput]
    /\ parentEnv' = ParentEnvAfterSpawn(parentEnv, overrides)
    /\ UNCHANGED ctx

\* Mutant of run: the line is kept in a buffer shared by all calls, so a call
\* that starts while another is blocked launches the line found there.
run_SharedLine(t, command, args) ==
    /\ runCalls' = [runCalls EXCEPT ![t] = Append(<< >>, [command |-> command, args |-> args])]
    /\ LET busy == {u \in Threads \ {t} : pc[u] = "waiting" /\ child[u].prog = S_sh}
           line == IF busy = {} THEN RunLine(command, args)
                   ELSE child[CHOOSE u \in busy : TRUE].argv[2]
       IN  SpawnAndWait(t, S_sh, RunArgv(line), RunEnvs(ctx))

\* XServer::run, up to the point where .output() blocks.  The entered
\* function's frame starts with no call to run; this is its one call.
run(t, command, args) ==
    /\ runCalls' = [runCalls EXCEPT ![t] = Append(<< >>, [command |-> command, args |-> args])]
    /\ SpawnAndWait(t, S_sh, RunArgv(RunLine(command, args)), RunEnvs(ctx))

\* A thread enters a public function of the shared XServer.
Enter(t, fn, p) ==
    /\ pc[t] \in {"idle", "returned"}
    /\ calls < MaxCalls
    /\ calls' = calls + 1
    /\ op' = [op EXCEPT ![t] = [fn |-> fn, p |-> p]]

\* A caller uses XServer::run directly.
CallRun(t, command, args) ==
    /\ Enter(t, "run", <<command, args>>)
    /\ run(t, command, args)

\* XServer::screenshot, up to the point where .output() blocks.
screenshot(t) ==
    /\ Enter(t, "screenshot", << >>)
    /\ runCalls' = [runCalls EXCEPT ![t] = << >>]
    /\ SpawnAndWait(t, S_xwd, ScreenshotArgv, ScreenshotEnvs(ctx))

\* The child of thread t's call runs to completion and exits.
ChildExit(t) ==
    /\ child[t].state = "running"
    /\ \E o \in (IF child[t].prog = S_sh THEN ShOutcomes ELSE XwdOutcomes) :
          child' = [child EXCEPT ![t] = [@ EXCEPT !.state = "exited",
                                                 !.toolFound = o.toolFound,
                                                 !.status = o.status,
                                                 !.out = o.out,
                                                 !.err = o.err]]
    /\ UNCHANGED <<ctx, parentEnv, pc, op, runCalls, result, calls, attempts, spawned>>

\* .output() returns once the child has exited; run/screenshot return its
\* Output and the wrapper returns run's Output.
OutputReturns(t) ==
    /\ pc[t] = "waiting"
    /\ child[t].state = "exited"
    /\ pc' = [pc EXCEPT ![t] = OnOutput(child[t]).pcNext]
    /\ result' = [result EXCEPT ![t] = OnOutput(child[t]).value]
    /\ UNCHANGED <<ctx, parentEnv, op, runCalls, child, calls, attempts, spawned>>

----------------------------------------------------------------------------
(* Desktop wrappers: src/desktop.rs *)

activate_window(t, window, options) ==
    /\ Enter(t, "activate_window", <<window, options>>)
    /\ run(t, Cmd("WindowActivate", options), window)

get_active_window(t) ==
    /\ Enter(t, "get_active_window", << >>)
    /\ run(t, Cmd("GetActiveWindow", {}), << >>)

set_num_desktops(t, num) ==
    /\ Enter(t, "set_num_desktops", <<num>>)
    /\ run(t, Cmd("SetNumDesktops", {}), ToDecimal(num))

get_num_desktops(t) ==
    /\ Enter(t, "get_num_desktops", << >>)
    /\ run(t, Cmd("GetNumDesktops", {}), << >>)

set_desktop_viewport(t, x, y) ==
    /\ Enter(t, "set_desktop_viewport", <<x, y>>)
    /\ run(t, Cmd("SetDesktopViewport", {}), ToDecimal(x) \o <<SP>> \o ToDecimal(y))

get_desktop_viewport(t) ==
    /\ Enter(t, "get_desktop_viewport", << >>)
    /\ run(t, Cmd("GetDesktopViewport", {}), << >>)

\* Mutant of set_desktop: the caller's options are not handed to the command.
set_desktop_OptionsDropped(t, desktop_number, options) ==
    /\ Enter(t, "set_desktop", <<desktop_number, options>>)
    /\ run(t, Cmd("SetDesktop", {}), ToDecimal(desktop_number))

set_desktop(t, desktop_number, options) ==
    /\ Enter(t, "set_desktop", <<desktop_number, options>>)
    /\ run(t, Cmd("SetDesktop", options), ToDecimal(desktop_number))

get_desktop(t) ==
    /\ Enter(t, "get_desktop", << >>)
    /\ run(t, Cmd("GetDesktop", {}), << >>)

\* Mutant of set_desktop_for_window: the two parameters interpolated in the
\* opposite order.
set_desktop_for_window_Swapped(t, window, desktop_number) ==
    /\ Enter(t, "set_desktop_for_window", <<window, desktop_number>>)
    /\ run(t, Cmd("SetDesktopForWindow", {}), ToDecimal(desktop_number) \o <<SP>> \o window)

set_desktop_for_window(t, window, desktop_number) ==
    /\ Enter(t, "set_desktop_for_window", <<window, desktop_number>>)
    /\ run(t, Cmd("SetDesktopForWindow", {}), window \o <<SP>> \o ToDecimal(desktop_number))

get_desktop_for_window(t, window) ==
    /\ Enter(t, "get_desktop_for_window", <<window>>)
    /\ run(t, Cmd("GetDesktopForWindow", {}), window)

----------------------------------------------------------------------------

Next ==
    \E t \in Threads :
        \/ \E c \in RawCommands, a \in RawArgs : CallRun(t, c, a)
        \/ screenshot(t)
        \/ \E w \in Windows, o \in SUBSET SyncOptions : activate_window(t, w, o)
        \/ get_active_window(t)
        \/ \E n \in Nums : set_num_desktops(t, n)
        \/ get_num_desktops(t)
        \/ \E x \in Coords, y \in Coords : set_desktop_viewport(t, x, y)
        \/ get_desktop_viewport(t)
        \/ \E n \in Nums, o \in SUBSET SetDesktopOptions : set_desktop(t, n, o)
        \/ get_desktop(t)
        \/ \E w \in Windows, n \in Nums : set_desktop_for_window(t, w, n)
        \/ \E w \in Windows : get_desktop_for_window(t, w)
        \/ ChildExit(t)
        \/ OutputReturns(t)

Spec == Init /\ [][Next]_vars

----------------------------------------------------------------------------
(* Helpers for stating the properties *)

TypeOK ==
    /\ ctx \in [display : Displays, auth : Auths]
    /\ pc \in [Threads -> {"idle", "waiting", "returned", "panicked"}]
    /\ \A t \in Threads : child[t].state \in {"none", "spawn_failed", "running", "exited"}
    /\ calls \in 0..MaxCalls
    /\ attempts \in 0..MaxCalls
    /\ spawned \in 0..MaxCalls

DigitValue(c) == CHOOSE d \in 0..9 : DigitChars[d + 1] = c

RECURSIVE ParseDecimal(_)
ParseDecimal(s) ==
    IF s = << >> THEN 0
    ELSE ParseDecimal(SubSeq(s, 1, Len(s) - 1)) * 10 + DigitValue(s[Len(s)])

\* s is the base-10 numeral of n: digits only, no sign, no leading zero.
IsDecimalOf(s, n) ==
    /\ Len(s) > 0
    /\ \A i \in 1..Len(s) : \E d \in 1..10 : DigitChars[d] = s[i]
    /\ (Len(s) > 1 => s[1] # "0")
    /\ ParseDecimal(s) = n

HasSpace(s) == \E i \in 1..Len(s) : s[i] = SP
FirstSpace(s) == CHOOSE i \in 1..Len(s) : s[i] = SP /\ \A j \in 1..(i - 1) : s[j] # SP

\* s split at every space character; an empty token marks a leading, trailing
\* or doubled space.
RECURSIVE Tokens(_)
Tokens(s) ==
    IF ~HasSpace(s) THEN <<s>>
    ELSE <<SubSeq(s, 1, FirstSpace(s) - 1)>> \o Tokens(SubSeq(s, FirstSpace(s) + 1, Len(s)))

\* line is "xdotool", one space, text, one space, args.
IsToolLine(line, text, args) ==
    LET n == Len(S_xdotool)
        m == Len(text)
    IN  /\ Len(line) = n + 1 + m + 1 + Len(args)
        /\ SubSeq(line, 1, n) = S_xdotool
        /\ line[n + 1] = SP
        /\ SubSeq(line, n + 2, n + 1 + m) = text
        /\ line[n + 2 + m] = SP
        /\ SubSeq(line, n + 3 + m, Len(line)) = args

\* value is ":" followed by the decimal numeral of d.
IsDisplayOf(value, d) ==
    /\ Len(value) > 1
    /\ value[1] = ":"
    /\ IsDecimalOf(Tail(value), d)

\* Thread t's current call has reached Command::output().
Launched(t) == child[t].state # "none"
ViaRun(t) == Launched(t) /\ op[t].fn # "screenshot"
ViaScreenshot(t) == Launched(t) /\ op[t].fn = "screenshot"
Line(t) == child[t].argv[2]

----------------------------------------------------------------------------
(* C1: for every command and positional-argument string, run launches     *)
(* `sh -c <line>` where <line> is "xdotool", the rendered command text and  *)
(* the positional text joined by single spaces, positional text last.       *)
C1_RunLineShape ==
    \A t \in Threads :
        ViaRun(t) =>
            /\ child[t].prog = S_sh
            /\ Len(child[t].argv) = 2
            /\ child[t].argv[1] = S_dashc
            /\ Len(runCalls[t]) = 1
            /\ IsToolLine(Line(t), Render(runCalls[t][1].command), runCalls[t][1].args)

C1_Witness ==
    \E t \in Threads :
        /\ op[t].fn = "run"
        /\ child[t].state = "running"
        /\ runCalls[t][1].command = Cmd("WindowActivate", {"Sync"})
        /\ runCalls[t][1].args = S_a_b

(* C2: with an empty positional string the line has no double space and no  *)
(* trailing artifact: it ends with the last token of the rendered command.  *)
C2_NoTrailingArtifact ==
    \A t \in Threads :
        (ViaRun(t) /\ runCalls[t][1].args = << >>) =>
            /\ \A i \in 1..(Len(Line(t)) - 1) : ~(Line(t)[i] = SP /\ Line(t)[i + 1] = SP)
            /\ Line(t)[Len(Line(t))] # SP

\* The environment of a child of run: DISPLAY = ":" d, XAUTHORITY = a, every
\* other variable as in the parent.
C3_ChildEnvState ==
    \A t \in Threads :
        ViaRun(t) =>
            /\ IsDisplayOf(child[t].env[S_DISPLAY], ctx.display)
            /\ child[t].env[S_XAUTHORITY] = ctx.auth
            /\ \A v \in EnvVars \ {S_DISPLAY, S_XAUTHORITY} : child[t].env[v] = parentEnv[v]

(* C3: the child of run has DISPLAY = ":" d and XAUTHORITY = a, inherits    *)
(* every other variable from the parent, and the parent's own environment  *)
(* is the same after the call as before it (no step changes it).           *)
C3_ChildOnlyEnv == []C3_ChildEnvState /\ [][parentEnv' = parentEnv]_vars

C3_Witness ==
    \E t \in Threads :
        /\ op[t].fn = "get_desktop"
        /\ child[t].state = "exited"
        /\ ctx.display = MaxDisplay
        /\ child[t].env[S_HOME] = S_home
        /\ parentEnv[S_DISPLAY] = S_colon0

(* C4: when the subprocess cannot be spawned, or the external tool's         *)
(* executable is unavailable, run and screenshot abort the caller and never *)
(* return an Output.                                                        *)
C4_UnavailableAborts ==
    \A t \in Threads :
        (\/ child[t].state = "spawn_failed"
         \/ (child[t].state = "exited" /\ ~child[t].toolFound)) =>
            /\ pc[t] # "returned"
            /\ ~result[t].some

\* The part of C4 the code does satisfy: a failed spawn panics.
SpawnFailurePanics ==
    \A t \in Threads :
        child[t].state = "spawn_failed" => (pc[t] = "panicked" /\ ~result[t].some)

(* C5: a child that exits non-zero does not abort the call: the call        *)
(* returns an Output with that status and exactly the child's bytes.        *)
C5_NonZeroPassThrough ==
    \A t \in Threads :
        (child[t].state = "exited" /\ child[t].status # 0) =>
            /\ pc[t] \in {"waiting", "returned"}
            /\ (pc[t] = "waiting" => ENABLED OutputReturns(t))
            /\ (pc[t] = "returned" =>
                    /\ result[t].some
                    /\ result[t].status = child[t].status
                    /\ result[t].stdout = child[t].out
                    /\ result[t].stderr = child[t].err)

C5_Witness ==
    /\ \E t \in Threads :
          /\ op[t].fn = "set_num_desktops"
          /\ pc[t] = "returned"
          /\ result[t].status = 1
          /\ result[t].stdout = S_out
          /\ result[t].stderr = S_err
    /\ \E t \in Threads :
          /\ op[t].fn = "screenshot"
          /\ pc[t] = "returned"
          /\ result[t].status = 1


(* C6 as stated: every call spawns exactly one child and returns only after *)
(* it has exited; after n calls exactly n children have been spawned.       *)
C6_OneChildPerCall ==
    /\ spawned = calls
    /\ \A t \in Threads : pc[t] = "returned" => child[t].state = "exited"

(* C6 as amended: every call makes exactly one spawn attempt (no retry, no   *)
(* reuse); a call whose spawn succeeds has exactly one child and returns    *)
(* only after that child has exited; a call whose spawn fails has no child  *)
(* and panics; a child that never exits means its call never returns.       *)
C6_OneSpawnAttemptPerCall ==
    /\ attempts = calls
    /\ spawned = calls - Cardinality({t \in Threads : pc[t] = "panicked"})
    /\ \A t \in Threads :
          /\ (pc[t] = "returned" => (child[t].state = "exited" /\ result[t].some))
          /\ (pc[t] = "waiting" => child[t].state \in {"running", "exited"})
          /\ (pc[t] = "panicked" <=> child[t].state = "spawn_failed")
          /\ ((pc[t] = "waiting" /\ child[t].state = "running") => ~ENABLED OutputReturns(t))

C6_Witness ==
    /\ calls = MaxCalls
    /\ \E t \in Threads : pc[t] = "waiting" /\ child[t].state = "running"
    /\ \E t \in Threads : pc[t] = "panicked"

(* C7: screenshot invokes `xwd` directly, not through a shell, with the      *)
(* single argument `-root`; the child's DISPLAY is ":" d (":7" for d = 7)    *)
(* and its XAUTHORITY is the context's authority string, and nothing else   *)
(* alters DISPLAY.                                                          *)
C7_ScreenshotInvocation ==
    \A t \in Threads :
        ViaScreenshot(t) =>
            /\ child[t].prog = S_xwd
            /\ child[t].prog # S_sh
            /\ child[t].argv = <<S_dashroot>>
            /\ IsDisplayOf(child[t].env[S_DISPLAY], ctx.display)
            /\ (ctx.display = 7 => child[t].env[S_DISPLAY] = <<":", "7">>)
            /\ child[t].env[S_XAUTHORITY] = ctx.auth
            /\ Cardinality({i \in 1..Len(child[t].overrides) :
                               child[t].overrides[i][1] = S_DISPLAY}) = 1
            /\ \A v \in EnvVars \ {S_DISPLAY, S_XAUTHORITY} : child[t].env[v] = parentEnv[v]

C7_Witness ==
    \E t \in Threads :
        /\ op[t].fn = "screenshot"
        /\ child[t].state = "running"
        /\ ctx.display = 7
        /\ child[t].env[S_DISPLAY] = <<":", "7">>

(* C8: under every interleaving of calls by several threads on one shared   *)
(* XServer, each child receives the line and the DISPLAY/XAUTHORITY values  *)
(* of its own call only, a step of one call leaves every other call's state *)
(* alone, and the context's display and auth never change.                  *)
C8_OwnInvocation ==
    /\ \A t \in Threads :
          /\ ViaRun(t) =>
                /\ runCalls[t][1].command.cat = "Desktop"
                /\ (op[t].fn = "run" => runCalls[t][1] = [command |-> op[t].p[1], args |-> op[t].p[2]])
                /\ IsToolLine(Line(t), Render(runCalls[t][1].command), runCalls[t][1].args)
          /\ Launched(t) =>
                /\ IsDisplayOf(child[t].env[S_DISPLAY], ctx.display)
                /\ child[t].env[S_XAUTHORITY] = ctx.auth
    /\ \A t, u \in Threads :
          (Launched(t) /\ Launched(u) /\ op[t] = op[u]) =>
              /\ child[t].prog = child[u].prog
              /\ child[t].argv = child[u].argv
              /\ child[t].env = child[u].env

Frame(t) == <<pc[t], op[t], runCalls[t], child[t], result[t]>>

\* C8: every child carries its own call's line and the context's values, a
\* step changes the call state of at most one thread, and ctx never changes.
C8_NoSharedCallState ==
    /\ []C8_OwnInvocation
    /\ [][/\ ctx' = ctx
          /\ Cardinality({t \in Threads : Frame(t)' # Frame(t)}) <= 1]_vars

C8_Witness ==
    /\ pc["t1"] = "waiting"
    /\ pc["t2"] = "waiting"
    /\ op["t1"].fn = "set_desktop"
    /\ op["t2"].fn = "get_desktop_for_window"
    /\ child["t1"].state = "running"
    /\ child["t2"].state = "exited"

(* C9: for activate_window and set_desktop the line holds exactly one flag  *)
(* token per option of the set, none for the empty set, after the           *)
(* subcommand literal and before the positional argument.                   *)
FlagTokens(options) ==
    (IF "Sync" \in options THEN <<S_sync>> ELSE << >>)
    \o (IF "Relative" \in options THEN <<S_relative>> ELSE << >>)

\* C9: the line's tokens are the tool name, the subcommand literal, one flag
\* token per option of the set, then the positional argument.
C9_FlagsBetweenSubcommandAndPositional ==
    \A t \in Threads :
        /\ (Launched(t) /\ op[t].fn = "activate_window") =>
              /\ Tokens(Line(t)) = <<S_xdotool, S_windowactivate>>
                                   \o FlagTokens(op[t].p[2]) \o <<op[t].p[1]>>
              /\ Len(Tokens(Line(t))) = 3 + Cardinality(op[t].p[2])
              /\ (op[t].p = <<S_12345, {}>> =>
                     Line(t) = S_xdotool \o <<SP>> \o S_windowactivate \o <<SP>> \o S_12345)
        /\ (Launched(t) /\ op[t].fn = "set_desktop") =>
              /\ Len(Tokens(Line(t))) = 3 + Cardinality(op[t].p[2])
              /\ SubSeq(Tokens(Line(t)), 1, 2 + Cardinality(op[t].p[2]))
                    = <<S_xdotool, S_set_desktop>> \o FlagTokens(op[t].p[2])
              /\ IsDecimalOf(Tokens(Line(t))[Len(Tokens(Line(t)))], op[t].p[1])
              /\ (op[t].p = <<2, {"Relative"}>> =>
                     Line(t) = S_xdotool \o <<SP>> \o S_set_desktop \o <<SP>>
                               \o S_relative \o <<SP, "2">>)

C9_Witness ==
    /\ \E t \in Threads :
          Launched(t) /\ op[t].fn = "set_desktop" /\ op[t].p = <<2, {"Relative"}>>
    /\ \E t \in Threads :
          Launched(t) /\ op[t].fn = "activate_window" /\ op[t].p = <<S_12345, {}>>

(* C10: each desktop wrapper makes exactly one call to run, with its own    *)
(* Desktop variant and a positional string built only from its parameters   *)
(* in declaration order in base 10, and returns run's Output unmodified.    *)
WrapperAction(fn) ==
    CASE fn = "activate_window" -> "WindowActivate"
      [] fn = "get_active_window" -> "GetActiveWindow"
      [] fn = "set_num_desktops" -> "SetNumDesktops"
      [] fn = "get_num_desktops" -> "GetNumDesktops"
      [] fn = "set_desktop_viewport" -> "SetDesktopViewport"
      [] fn = "get_desktop_viewport" -> "GetDesktopViewport"
      [] fn = "set_desktop" -> "SetDesktop"
      [] fn = "get_desktop" -> "GetDesktop"
      [] fn = "set_desktop_for_window" -> "SetDesktopForWindow"
      [] fn = "get_desktop_for_window" -> "GetDesktopForWindow"

Wrappers ==
    {"activate_window", "get_active_window", "set_num_desktops", "get_num_desktops",
     "set_desktop_viewport", "get_desktop_viewport", "set_desktop", "get_desktop",
     "set_desktop_for_window", "get_desktop_for_window"}

WrapperArgsOK(fn, p, args) ==
    CASE fn \in {"activate_window", "get_desktop_for_window"} -> args = p[1]
      [] fn \in {"get_active_window", "get_num_desktops",
                 "get_desktop_viewport", "get_desktop"} -> args = << >>
      [] fn \in {"set_num_desktops", "set_desktop"} -> IsDecimalOf(args, p[1])
      [] fn = "set_desktop_viewport" ->
            /\ Len(Tokens(args)) = 2
            /\ IsDecimalOf(Tokens(args)[1], p[1])
            /\ IsDecimalOf(Tokens(args)[2], p[2])
      [] fn = "set_desktop_for_window" ->
            /\ Len(args) > Len(p[1]) + 1
            /\ SubSeq(args, 1, Len(p[1])) = p[1]
            /\ args[Len(p[1]) + 1] = SP
            /\ IsDecimalOf(SubSeq(args, Len(p[1]) + 2, Len(args)), p[2])

WrapperOptions(fn, p) ==
    IF fn \in {"activate_window", "set_desktop"} THEN p[2] ELSE {}

\* C10: one call to run per wrapper, with the wrapper's variant and a positional
\* string made of its parameters in order in base 10; run's Output is returned
\* unmodified.
C10_WrappersDelegate ==
    \A t \in Threads :
        op[t].fn \in Wrappers =>
            /\ Launched(t)
            /\ Len(runCalls[t]) = 1
            /\ runCalls[t][1].command = Cmd(WrapperAction(op[t].fn), WrapperOptions(op[t].fn, op[t].p))
            /\ WrapperArgsOK(op[t].fn, op[t].p, runCalls[t][1].args)
            /\ child[t].prog = S_sh
            /\ (pc[t] = "returned" =>
                    result[t] = [some |-> TRUE, status |-> child[t].status,
                                 stdout |-> child[t].out, stderr |-> child[t].err])

C10_Witness ==
    /\ \E t \in Threads :
          /\ op[t].fn = "set_desktop_for_window"
          /\ op[t].p = <<S_12345, 255>>
          /\ pc[t] = "returned"
          /\ result[t].status = 0
    /\ \E t \in Threads :
          /\ op[t].fn = "set_desktop_viewport"
          /\ op[t].p = <<0, 1024>>
          /\ Launched(t)

====
